---- MODULE Spec2Model ----
(***************************************************************************)
(* Model of LmsAPI::Server::MediaRequestHandler (one instance per          *)
(* connection): the request dispatcher process(), the three handlers       *)
(* processAudioPrepare(), processGetPart() and processTerminate(), the     *)
(* transcoder map _transcoders and the handle counter _curHandle.          *)
(* A second specification, SpecGA, models GeneticAlgorithm::simulate().    *)
(***************************************************************************)
EXTENDS Integers, Sequences, FiniteSets, TLC

\* ---------------------------------------------------------------- bounds
\* number of handles one explored session may issue
MaxHandles == 3
\* the value explored for MediaRequestHandler::_maxTranscoders
maxTranscoders == 2
\* the value explored for MediaRequestHandler::_maxPartSize
maxPartSize == 2
\* largest requested_data_size explored: above the part size
MaxRequestedSize == maxPartSize + 1

\* largest initial population explored by SpecGA
MaxPopulation == 11
\* individuals explored by SpecGA are 0..MaxIndividual
MaxIndividual == 1
\* largest Params::nbGenerations explored by SpecGA
MaxGenerations == 1

\* ------------------------------------------------------ program values
\* simulate(): if (initialPopulation.size() < 10) throw
MinPopulation == 10
\* the first handle of a connection
InitialHandle == 0
\* uint32_t _curHandle: 2^16, so that UInt32Max is HalfWord * HalfWord - 1
HalfWord == 65536

\* ------------------------------------------------------------ vocabulary
TypeMediaPrepare == "TypeMediaPrepare"
TypeMediaGetPart == "TypeMediaGetPart"
TypeMediaTerminate == "TypeMediaTerminate"
TypeOther == "TypeOther"

TypeUnset == "unset"
TypePrepareResult == "TypePrepareResult"
TypePartResult == "TypePartResult"
TypeTerminateResult == "TypeTerminateResult"

AudioCodecTypeOGA == "AudioCodecTypeOGA"
AudioCodecTypeOther == "AudioCodecTypeOther"
Codecs == {AudioCodecTypeOGA, AudioCodecTypeOther}

\* the six named tiers and one value outside the enumeration
Bitrates == {"32_kbps", "64_kbps", "96_kbps", "128_kbps", "192_kbps", "256_kbps", "other_kbps"}

\* one track id the database holds and one it does not
Tracks == {1, 2}
Handles == 0..MaxHandles
Sizes == 0..MaxRequestedSize

LogNone == "none"
LogVideo == "Video prepare not supported!"
LogBadPrepare == "Bad MediaRequest::TypeMediaPrepare!"
LogBadGet == "Bad MediaRequest::TypeMediaGet!"
LogBadTerminate == "Bad MediaRequest::TypeMediaTerminate!"
LogUnhandledType == "Unhandled MediaRequest type"
LogUnhandledCodec == "Unhandled codec type"
LogUnhandledBitrate == "Unhandled bitrate type"
LogLimit == "Transcoder limit reached!"
LogNoTrack == "Requested track does not exist"
LogException == "Caught exception"
LogNewTranscode == "Set up new transcode"
LogNoTranscoder == "No transcoder found for handle"
LogGetPart == "MediaRequestHandler::processGetPart"
LogTerminate == "resetting transcoder for handle"

\* ---------------------------------------------------------------- state
VARIABLES transcoders, curHandle, request, build, res, response, log, issued, assertOk,
          pull, terminated

\* the state of one MediaRequestHandler and the record of its last request:
\* pull is the call of transcoder->process() the request made, terminated the
\* handles processTerminate has erased
mediaVars == <<transcoders, curHandle, request, build, res, response, log, issued, assertOk,
               pull, terminated>>

\* one call of GeneticAlgorithm::simulate(): its argument, Params::nbGenerations,
\* its locals, its position, and whether the last breeding round picked one
\* parent twice
VARIABLES initialPopulation, nbGenerations, scoredPopulation, children, currentGeneration,
          gaPc, gaRetried, gaAssertOk, gaResult

gaVars == <<initialPopulation, nbGenerations, scoredPopulation, children, currentGeneration,
            gaPc, gaRetried, gaAssertOk, gaResult>>

vars == <<mediaVars, gaVars>>

\* a MediaRequest; fields a variant does not read carry a fixed filler value
Req(type, hasPrepare, hasAudio, hasVideo, hasGetPart, hasTerminate, codec, bitrate, track, handle, size) ==
    [type |-> type, has_prepare |-> hasPrepare, has_audio |-> hasAudio, has_video |-> hasVideo,
     has_get_part |-> hasGetPart, has_terminate |-> hasTerminate,
     codec_type |-> codec, bitrate |-> bitrate, track_id |-> track,
     handle |-> handle, requested_data_size |-> size]

NoRequest == Req("none", FALSE, FALSE, FALSE, FALSE, FALSE, AudioCodecTypeOGA, "32_kbps", 1, 0, 0)

AudioPrepareRequests ==
    {Req(TypeMediaPrepare, TRUE, TRUE, FALSE, FALSE, FALSE, c, b, t, 0, 0) : c \in Codecs, b \in Bitrates, t \in Tracks}

BadPrepareRequests ==
    {Req(TypeMediaPrepare, hp, FALSE, hv, FALSE, FALSE, AudioCodecTypeOGA, "32_kbps", 1, 0, 0) :
        hp \in BOOLEAN, hv \in BOOLEAN} \ {Req(TypeMediaPrepare, FALSE, FALSE, TRUE, FALSE, FALSE, AudioCodecTypeOGA, "32_kbps", 1, 0, 0)}

GetPartRequests ==
    {Req(TypeMediaGetPart, FALSE, FALSE, FALSE, TRUE, FALSE, AudioCodecTypeOGA, "32_kbps", 1, h, n) : h \in Handles, n \in Sizes}

BadGetPartRequests ==
    {Req(TypeMediaGetPart, FALSE, FALSE, FALSE, FALSE, ht, AudioCodecTypeOGA, "32_kbps", 1, 0, 0) : ht \in BOOLEAN}

TerminateRequests ==
    {Req(TypeMediaTerminate, FALSE, FALSE, FALSE, FALSE, TRUE, AudioCodecTypeOGA, "32_kbps", 1, h, 0) : h \in Handles}

BadTerminateRequests ==
    {Req(TypeMediaTerminate, FALSE, FALSE, FALSE, hg, FALSE, AudioCodecTypeOGA, "32_kbps", 1, 0, 0) : hg \in BOOLEAN}

OtherRequests ==
    {Req(TypeOther, hp, FALSE, FALSE, hg, ht, AudioCodecTypeOGA, "32_kbps", 1, 0, 0) :
        hp \in BOOLEAN, hg \in BOOLEAN, ht \in BOOLEAN}

\* a MediaResponse as the caller hands it in: nothing set
EmptyResponse ==
    [type |-> TypeUnset, has_prepare_result |-> FALSE, has_handle |-> FALSE, handle |-> 0,
     has_part_result |-> FALSE, data |-> 0, has_terminate_result |-> FALSE]

\* outcomes of constructing the transcoder for one Prepare: it throws or not
BuildNone == [thrown |-> FALSE]
BuildOutcomes == [thrown : BOOLEAN]

\* ------------------------------------------------------ collaborators
\* Database::Track::getById: the tracks the database holds
GetById(trackId) == trackId \in {1}

\* a freshly constructed AvConvTranscoder: not complete
NewTranscoder == [complete |-> FALSE]

\* AvConvTranscoder::process: the transcoder after a pull that did or did not reach the end
TranscoderProcess(t, eof) == [t EXCEPT !.complete = eof]

\* ---------------------------------------------------- helper operators
Size(T) == Cardinality(DOMAIN T)

Find(T, h) == h \in DOMAIN T

\* erase(begin()) instead of erase(handle)
Erase_first(T, h) ==
    LET first == CHOOSE k \in DOMAIN T : \A j \in DOMAIN T : k <= j
    IN  [k \in DOMAIN T \ {first} |-> T[k]]

\* clear() instead of erase(handle)
Erase_all(T, h) == <<>>

\* the erase left out
Erase_none(T, h) == T

\* _transcoders.erase(handle)
Erase(T, h) == [k \in DOMAIN T \ {h} |-> T[k]]

Store(T, h, t) == [k \in DOMAIN T \cup {h} |-> IF k = h THEN t ELSE T[k]]

\* switch (request.codec_type())
CodecRecognized(codec) == codec = AudioCodecTypeOGA

\* a default branch that falls back to the lowest tier
BitrateValue_fallback(b) ==
    CASE b = "32_kbps" -> 32000
      [] b = "64_kbps" -> 64000
      [] b = "96_kbps" -> 96000
      [] b = "128_kbps" -> 128000
      [] b = "192_kbps" -> 192000
      [] b = "256_kbps" -> 256000
      [] OTHER -> 32000

\* switch (request.bitrate()): 0 stands for the default branch
BitrateValue(b) ==
    CASE b = "32_kbps" -> 32000
      [] b = "64_kbps" -> 64000
      [] b = "96_kbps" -> 96000
      [] b = "128_kbps" -> 128000
      [] b = "192_kbps" -> 192000
      [] b = "256_kbps" -> 256000
      [] OTHER -> 0

\* the limit test left out
LimitReached_never(T) == FALSE

\* the limit test off by one
LimitReached_offByOne(T) == Size(T) > maxTranscoders

\* _transcoders.size() + 1 > _maxTranscoders
LimitReached(T) == Size(T) + 1 > maxTranscoders

\* the counter left where it is
NextHandle_same(c) == c

\* a counter one bit wide
NextHandle_wrap(c) == (c + 1) % 2

\* the counter advanced twice
NextHandle_two(c) == c + 2

\* _curHandle++ on a uint32_t: the value after 2^32 - 1 is 0
NextHandle(c) ==
    IF c \div HalfWord = HalfWord - 1 /\ c % HalfWord = HalfWord - 1 THEN 0 ELSE c + 1

\* the requested size taken as it comes
ClampSize_none(n) == n

\* if (dataSize > _maxPartSize) dataSize = _maxPartSize
ClampSize(n) == IF n > maxPartSize THEN maxPartSize ELSE n

\* the type set whatever the handler returned
SetType_always(r, resp, t) == [resp EXCEPT !.type = t]

\* if (res) response.set_type(t)
SetType(r, resp, t) == IF r THEN [resp EXCEPT !.type = t] ELSE resp

\* the type process() sets after a successful processTerminate
TerminateResponseType == TypePartResult

\* the limit reported as a failure
ReturnLimit_false == FALSE

\* processAudioPrepare: return value when the transcoder limit is reached
ReturnLimit == TRUE

\* a missing track reported as a failure
ReturnNoTrack_false == FALSE

\* processAudioPrepare: return value when the track does not exist
ReturnNoTrack == TRUE

\* the exception swallowed
ReturnException_true == TRUE

\* processAudioPrepare: return value of the catch block
ReturnException == FALSE

\* processTerminate: return value when no transcoder is found
ReturnNotFound == TRUE

\* what AvConvTranscoder::process may do when asked for maxBytes bytes: append
\* any number of bytes up to maxBytes, zero included, and reach the end or not
PullChoices(maxBytes) == [n : 0..maxBytes, eof : BOOLEAN]

NoPull == [n |-> 0, eof |-> FALSE]

\* no call of transcoder->process() in this request
NotPulled == [called |-> FALSE, eof |-> FALSE]

\* the pipeline pulled whether complete or not
ShouldPull_always(t) == TRUE

\* the pipeline never pulled
ShouldPull_never(t) == FALSE

\* if (!transcoder->isComplete())
ShouldPull(t) == ~t.complete

\* pre-increment: the handle is the counter's new value
HandleTaken_pre(c) == c + 1

\* uint32_t handle = _curHandle++: the handle is the counter's old value
HandleTaken(c) == c

\* --------------------------------------------- GeneticAlgorithm helpers
Individuals == 0..MaxIndividual

NoIndividual == -1

\* std::optional<Score> that holds no value
NoScore == -1

\* ScoredIndividual {individual}: not scored yet
ScoredIndividual(ind) == [individual |-> ind, score |-> NoScore]

\* Params::scoreFunction: the lower the individual, the better
ScoreFunction(ind) == MaxIndividual - ind

\* pickRandom(): any element of the container, by position
PickRandom(population) == 1..Len(population)

\* std::vector::resize(n) with n at most the size
Resize(population, n) == SubSeq(population, 1, n)

\* the lambda of scoreAndSortPopulation: score what has no score yet
ScoreAll(population) ==
    [i \in 1..Len(population) |->
        IF population[i].score = NoScore
        THEN [population[i] EXCEPT !.score = ScoreFunction(population[i].individual)]
        ELSE population[i]]

\* std::sort with a.score > b.score: the elements in descending order of score
RECURSIVE SortByScore(_)
SortByScore(population) ==
    IF Len(population) = 0 THEN <<>>
    ELSE LET best == CHOOSE i \in 1..Len(population) :
                        \A j \in 1..Len(population) :
                            \/ population[i].score > population[j].score
                            \/ population[i].score = population[j].score /\ i <= j
         IN  <<population[best]>> \o
             SortByScore([k \in 1..(Len(population) - 1) |->
                            IF k < best THEN population[k] ELSE population[k + 1]])

\* GeneticAlgorithm::scoreAndSortPopulation
ScoreAndSortPopulation(population) == SortByScore(ScoreAll(population))

\* one child too many
BreedMore_oneMore(nbChildren, nbParents, nbInitial) == nbChildren + nbParents <= nbInitial

\* while (children.size() + scoredPopulation.size() < initialPopulation.size())
BreedMore(nbChildren, nbParents, nbInitial) == nbChildren + nbParents < nbInitial

\* ------------------------------------------------------------- handlers
\* MediaRequestHandler::processAudioPrepare; b is the outcome of building the transcoder
ProcessAudioPrepare(req, pr, T, cur, b) ==
    LET return(r, msg) == [res |-> r, pr |-> pr, T |-> T, cur |-> cur, log |-> msg, issued |-> <<>>, ok |-> TRUE]
    IN  IF ~CodecRecognized(req.codec_type) THEN return(FALSE, LogUnhandledCodec)
        ELSE IF BitrateValue(req.bitrate) = 0 THEN return(FALSE, LogUnhandledBitrate)
        ELSE IF LimitReached(T) THEN return(ReturnLimit, LogLimit)
        ELSE IF ~GetById(req.track_id) THEN return(ReturnNoTrack, LogNoTrack)
        ELSE IF b.thrown THEN return(ReturnException, LogException)
        ELSE LET handle == HandleTaken(cur)
             IN  [res |-> TRUE,
                  pr |-> [pr EXCEPT !.has_handle = TRUE, !.handle = handle],
                  T |-> Store(T, handle, NewTranscoder),
                  cur |-> NextHandle(cur),
                  log |-> LogNewTranscode,
                  issued |-> <<handle>>,
                  ok |-> ~Find(T, handle)]

\* _transcoders[handle] instead of find(): an unknown handle gets a fresh entry
ProcessGetPart_insert(req, pr, T, c) ==
    LET dataSize == ClampSize(req.requested_data_size)
    IN  IF ~Find(T, req.handle)
        THEN [res |-> TRUE, pr |-> pr, T |-> Store(T, req.handle, NewTranscoder),
              log |-> LogNoTranscoder, pull |-> NotPulled]
        ELSE LET transcoder == T[req.handle]
             IN  IF ShouldPull(transcoder)
                 THEN [res |-> TRUE, pr |-> [pr EXCEPT !.data = c.n],
                       T |-> Store(T, req.handle, TranscoderProcess(transcoder, c.eof)),
                       log |-> LogGetPart, pull |-> [called |-> TRUE, eof |-> c.eof]]
                 ELSE [res |-> TRUE, pr |-> pr, T |-> T, log |-> LogGetPart, pull |-> NotPulled]

\* MediaRequestHandler::processGetPart; c is what the transcoder does if it is pulled
ProcessGetPart(req, pr, T, c) ==
    LET dataSize == ClampSize(req.requested_data_size)
    IN  IF ~Find(T, req.handle)
        THEN [res |-> TRUE, pr |-> pr, T |-> T, log |-> LogNoTranscoder, pull |-> NotPulled]
        ELSE LET transcoder == T[req.handle]
             IN  IF ShouldPull(transcoder)
                 THEN [res |-> TRUE, pr |-> [pr EXCEPT !.data = c.n],
                       T |-> Store(T, req.handle, TranscoderProcess(transcoder, c.eof)),
                       log |-> LogGetPart, pull |-> [called |-> TRUE, eof |-> c.eof]]
                 ELSE [res |-> TRUE, pr |-> pr, T |-> T, log |-> LogGetPart, pull |-> NotPulled]

\* the pulls the transcoder of req.handle can answer with for this request
GetPartChoices(req, T) ==
    IF Find(T, req.handle) /\ ShouldPull(T[req.handle])
    THEN PullChoices(ClampSize(req.requested_data_size))
    ELSE {NoPull}

\* MediaRequestHandler::processTerminate
ProcessTerminate(req, T) ==
    IF ~Find(T, req.handle)
    THEN [res |-> ReturnNotFound, T |-> T, log |-> LogNoTranscoder]
    ELSE [res |-> TRUE, T |-> Erase(T, req.handle), log |-> LogTerminate]

\* ------------------------------------------------------------ dispatcher
\* what a request that reaches no handler leaves behind
Rejected(req, msg) ==
    /\ request' = req
    /\ build' = BuildNone
    /\ res' = FALSE
    /\ response' = EmptyResponse
    /\ log' = msg
    /\ pull' = NotPulled
    /\ UNCHANGED <<transcoders, curHandle, issued, assertOk, terminated>>

\* process(), case MediaRequest::TypeMediaPrepare
ProcessPrepare(req, b) ==
    /\ req.type = TypeMediaPrepare
    /\ IF req.has_prepare
       THEN LET r0 == [EmptyResponse EXCEPT !.has_prepare_result = TRUE]
                o == IF req.has_audio
                     THEN ProcessAudioPrepare(req, r0, transcoders, curHandle, b)
                     ELSE [res |-> FALSE, pr |-> EmptyResponse, T |-> transcoders, cur |-> curHandle,
                           log |-> IF req.has_video THEN LogVideo ELSE LogBadPrepare,
                           issued |-> <<>>, ok |-> TRUE]
            IN  /\ o.log = LogNewTranscode => Len(issued) < MaxHandles
                /\ IF o.log \in {LogException, LogNewTranscode} THEN b \in BuildOutcomes ELSE b = BuildNone
                /\ request' = req
                /\ build' = b
                /\ res' = o.res
                /\ response' = SetType(o.res, o.pr, TypePrepareResult)
                /\ transcoders' = o.T
                /\ curHandle' = o.cur
                /\ log' = o.log
                /\ issued' = issued \o o.issued
                /\ assertOk' = (assertOk /\ o.ok)
                /\ pull' = NotPulled
                /\ UNCHANGED terminated
       ELSE /\ b = BuildNone
            /\ Rejected(req, LogBadPrepare)

\* process(), case MediaRequest::TypeMediaGetPart
ProcessGetPartRequest(req, c) ==
    /\ req.type = TypeMediaGetPart
    /\ IF req.has_get_part
       THEN LET r0 == [EmptyResponse EXCEPT !.has_part_result = TRUE]
                o == ProcessGetPart(req, r0, transcoders, c)
            IN  /\ c \in GetPartChoices(req, transcoders)
                /\ request' = req
                /\ build' = BuildNone
                /\ res' = o.res
                /\ response' = SetType(o.res, o.pr, TypePartResult)
                /\ transcoders' = o.T
                /\ log' = o.log
                /\ pull' = o.pull
                /\ UNCHANGED <<curHandle, issued, assertOk, terminated>>
       ELSE /\ c = NoPull
            /\ Rejected(req, LogBadGet)

\* process(), case MediaRequest::TypeMediaTerminate
ProcessTerminateRequest(req) ==
    /\ req.type = TypeMediaTerminate
    /\ IF req.has_terminate
       THEN LET r0 == [EmptyResponse EXCEPT !.has_terminate_result = TRUE]
                o == ProcessTerminate(req, transcoders)
            IN  /\ request' = req
                /\ build' = BuildNone
                /\ res' = o.res
                /\ response' = SetType(o.res, r0, TerminateResponseType)
                /\ transcoders' = o.T
                /\ log' = o.log
                /\ pull' = NotPulled
                /\ terminated' = terminated \cup (DOMAIN transcoders \ DOMAIN o.T)
                /\ UNCHANGED <<curHandle, issued, assertOk>>
       ELSE Rejected(req, LogBadTerminate)

\* process(), default branch of the switch
ProcessUnhandled(req) ==
    /\ req.type \notin {TypeMediaPrepare, TypeMediaGetPart, TypeMediaTerminate}
    /\ Rejected(req, LogUnhandledType)

\* --------------------------------------------------------- specification
MediaInit ==
    /\ transcoders = <<>>
    /\ curHandle = InitialHandle
    /\ request = NoRequest
    /\ build = BuildNone
    /\ res = FALSE
    /\ response = EmptyResponse
    /\ log = LogNone
    /\ issued = <<>>
    /\ assertOk = TRUE
    /\ pull = NotPulled
    /\ terminated = {}

\* no call of simulate() under way
GaIdle ==
    /\ initialPopulation = <<>>
    /\ nbGenerations = 0
    /\ scoredPopulation = <<>>
    /\ children = <<>>
    /\ currentGeneration = 0
    /\ gaPc = "idle"
    /\ gaRetried = FALSE
    /\ gaAssertOk = TRUE
    /\ gaResult = NoIndividual

Init == MediaInit /\ GaIdle

Next ==
    \/ \E req \in AudioPrepareRequests \cup BadPrepareRequests, b \in BuildOutcomes \cup {BuildNone} :
            ProcessPrepare(req, b) /\ UNCHANGED gaVars
    \/ \E req \in GetPartRequests \cup BadGetPartRequests, c \in [n : Sizes, eof : BOOLEAN] :
            ProcessGetPartRequest(req, c) /\ UNCHANGED gaVars
    \/ \E req \in TerminateRequests \cup BadTerminateRequests : ProcessTerminateRequest(req) /\ UNCHANGED gaVars
    \/ \E req \in OtherRequests : ProcessUnhandled(req) /\ UNCHANGED gaVars

Spec == Init /\ [][Next]_vars

\* ------------------------------------------- GeneticAlgorithm::simulate
\* the populations simulate() is called with: sizes around the minimum and
\* the empty one, individuals in a repeating pattern
InitialPopulations ==
    {[i \in 1..n |-> (i * k) % (MaxIndividual + 1)] :
        n \in {0} \cup ((MinPopulation - 1)..MaxPopulation), k \in 0..MaxIndividual}

\* the call of simulate() about to start
GAInit ==
    /\ MediaInit
    /\ initialPopulation \in InitialPopulations
    /\ nbGenerations \in 0..MaxGenerations
    /\ scoredPopulation = <<>>
    /\ children = <<>>
    /\ currentGeneration = 0
    /\ gaPc = "start"
    /\ gaRetried = FALSE
    /\ gaAssertOk = TRUE
    /\ gaResult = NoIndividual

\* simulate() up to the loop: the size test, the transform and the first sort
SimulateStart ==
    /\ gaPc = "start"
    /\ IF Len(initialPopulation) < MinPopulation
       THEN /\ gaPc' = "error"
            /\ UNCHANGED scoredPopulation
       ELSE /\ gaPc' = "generation"
            /\ scoredPopulation' = ScoreAndSortPopulation(
                    [i \in 1..Len(initialPopulation) |-> ScoredIndividual(initialPopulation[i])])
    /\ UNCHANGED <<initialPopulation, nbGenerations, children, currentGeneration, gaRetried, gaAssertOk, gaResult>>
    /\ UNCHANGED mediaVars

\* the head of the generation loop: select the parents, or leave and return the best
SimulateGeneration ==
    /\ gaPc = "generation"
    /\ IF currentGeneration < nbGenerations
       THEN /\ scoredPopulation' = Resize(scoredPopulation, Len(scoredPopulation) \div 2)
            /\ children' = <<>>
            /\ gaPc' = "breed"
            /\ UNCHANGED gaResult
       ELSE /\ gaPc' = "done"
            /\ gaResult' = scoredPopulation[1].individual
            /\ UNCHANGED <<scoredPopulation, children>>
    /\ gaRetried' = FALSE
    /\ UNCHANGED <<initialPopulation, nbGenerations, currentGeneration, gaAssertOk>>
    /\ UNCHANGED mediaVars

\* one round of the breeding loop: parents p1 and p2, child c after breeding and mutation
SimulateBreed(p1, p2, c) ==
    /\ gaPc = "breed"
    /\ BreedMore(Len(children), Len(scoredPopulation), Len(initialPopulation))
    /\ p1 \in PickRandom(scoredPopulation)
    /\ p2 \in PickRandom(scoredPopulation)
    /\ IF p1 = p2
       THEN /\ gaRetried' = TRUE
            /\ UNCHANGED children
       ELSE /\ gaRetried' = FALSE
            /\ children' = Append(children, ScoredIndividual(c))
    /\ UNCHANGED <<initialPopulation, nbGenerations, scoredPopulation, currentGeneration, gaPc, gaAssertOk, gaResult>>
    /\ UNCHANGED mediaVars

\* the end of a generation: insert the children, assert, score and sort
SimulateEndGeneration ==
    /\ gaPc = "breed"
    /\ ~BreedMore(Len(children), Len(scoredPopulation), Len(initialPopulation))
    /\ LET merged == scoredPopulation \o children
       IN  /\ gaAssertOk' = (gaAssertOk /\ Len(merged) = Len(initialPopulation))
           /\ scoredPopulation' = ScoreAndSortPopulation(merged)
    /\ children' = <<>>
    /\ currentGeneration' = currentGeneration + 1
    /\ gaPc' = "generation"
    /\ gaRetried' = FALSE
    /\ UNCHANGED <<initialPopulation, nbGenerations, gaResult>>
    /\ UNCHANGED mediaVars

GANext ==
    \/ SimulateStart
    \/ SimulateGeneration
    \/ \E p1 \in 1..MaxPopulation, p2 \in 1..MaxPopulation, c \in Individuals : SimulateBreed(p1, p2, c)
    \/ SimulateEndGeneration

SpecGA == GAInit /\ [][GANext]_vars

TypeOK ==
    /\ DOMAIN transcoders \subseteq Handles
    /\ curHandle \in 0..MaxHandles
    /\ res \in BOOLEAN
    /\ assertOk \in BOOLEAN

\* ------------------------------------------------------------ properties
Min2(a, b) == IF a < b THEN a ELSE b

RecognizedBitrates == {"32_kbps", "64_kbps", "96_kbps", "128_kbps", "192_kbps", "256_kbps"}

\* a Prepare that carries an audio payload
IsAudioPrepare(r) == r.type = TypeMediaPrepare /\ r.has_prepare /\ r.has_audio

\* an audio Prepare whose codec and bitrate are both recognized
IsValidPrepare(r) ==
    IsAudioPrepare(r) /\ r.codec_type = AudioCodecTypeOGA /\ r.bitrate \in RecognizedBitrates

IsGetPart(r) == r.type = TypeMediaGetPart /\ r.has_get_part

IsTerminate(r) == r.type = TypeMediaTerminate /\ r.has_terminate

\* the declared type lacks its payload, a Prepare has no audio, or the type is unknown
IsMalformed(r) ==
    \/ r.type = TypeMediaPrepare /\ (~r.has_prepare \/ ~r.has_audio)
    \/ r.type = TypeMediaGetPart /\ ~r.has_get_part
    \/ r.type = TypeMediaTerminate /\ ~r.has_terminate
    \/ r.type \notin {TypeMediaPrepare, TypeMediaGetPart, TypeMediaTerminate}

SessionUnchanged == transcoders' = transcoders /\ curHandle' = curHandle /\ issued' = issued

\* C1: in every reachable state the job table holds at most maxTranscoders jobs.
C1_TableWithinLimit == Size(transcoders) <= maxTranscoders

\* a Prepare was turned away with the table full
C1_Witness == Size(transcoders) = maxTranscoders /\ maxTranscoders > 0 /\ log = LogLimit

\* C2: the handles returned by successful Prepares are strictly increasing in
\* issue order, the first one is 0, and the handle a Prepare takes is never a
\* key of the table at that moment (the assertion before the insertion holds).
C2_HandlesIncrease ==
    /\ \A i \in 1..Len(issued) : \A j \in 1..Len(issued) : i < j => issued[i] < issued[j]
    /\ Len(issued) > 0 => issued[1] = 0
    /\ assertOk

\* two handles were issued, the first was terminated, the second is live
C2_Witness ==
    /\ Len(issued) >= 2
    /\ issued[1] \notin DOMAIN transcoders
    /\ issued[2] \in DOMAIN transcoders
    /\ response.has_handle

\* C3: a GetPart returns at most min(requestedSize, maxPartSize) bytes.
C3_PartBounded ==
    IsGetPart(request) =>
        /\ res
        /\ response.data <= Min2(request.requested_data_size, maxPartSize)

\* a GetPart asking for more than maxPartSize got exactly maxPartSize bytes
C3_Witness ==
    /\ IsGetPart(request)
    /\ request.requested_data_size > maxPartSize
    /\ response.data = maxPartSize
    /\ maxPartSize > 0

\* C4: a Prepare with an unrecognized codec or bitrate fails and leaves the
\* job table and the handle counter unchanged, whatever the table size and
\* whether or not the track resolves.
C4_BadEnumFails ==
    [][(IsAudioPrepare(request') /\ ~IsValidPrepare(request'))
        => (res' = FALSE /\ SessionUnchanged)]_vars

\* an unrecognized bitrate was refused with the table full and the track unknown
C4_Witness ==
    /\ IsAudioPrepare(request)
    /\ request.codec_type = AudioCodecTypeOGA
    /\ request.bitrate \notin RecognizedBitrates
    /\ ~GetById(request.track_id)
    /\ Size(transcoders) = maxTranscoders
    /\ res = FALSE

\* C5: a valid Prepare issued with the table at the limit succeeds, carries no
\* handle, inserts no job and does not advance the handle counter.
C5_AtLimitAbsorbed ==
    [][(IsValidPrepare(request') /\ Size(transcoders) = maxTranscoders)
        => (res' = TRUE /\ ~response'.has_handle /\ SessionUnchanged)]_vars

\* a valid Prepare for a known track was absorbed at the limit
C5_Witness ==
    /\ IsValidPrepare(request)
    /\ GetById(request.track_id)
    /\ Size(transcoders) = maxTranscoders
    /\ log = LogLimit
    /\ res
    /\ ~response.has_handle

\* C6: a valid Prepare below the limit whose track the database does not hold
\* succeeds, carries no handle and leaves the table and the counter unchanged.
C6_UnknownTrackAbsorbed ==
    [][(IsValidPrepare(request') /\ Size(transcoders) < maxTranscoders /\ ~GetById(request'.track_id))
        => (res' = TRUE /\ ~response'.has_handle /\ SessionUnchanged)]_vars

\* a valid Prepare for an unknown track was absorbed below the limit
C6_Witness ==
    /\ IsValidPrepare(request)
    /\ ~GetById(request.track_id)
    /\ Size(transcoders) < maxTranscoders
    /\ log = LogNoTrack
    /\ res
    /\ ~response.has_handle

\* C7: every request dispatched successfully gets a response whose type
\* mirrors the request: Prepare -> PrepareResult, GetPart -> PartResult,
\* Terminate -> TerminateResult.
C7_KindMirrors ==
    res =>
        /\ request.type = TypeMediaPrepare => response.type = TypePrepareResult
        /\ request.type = TypeMediaGetPart => response.type = TypePartResult
        /\ request.type = TypeMediaTerminate => response.type = TypeTerminateResult

\* C8: a malformed request fails, leaves the response unset and the job table
\* and handle counter unchanged; the session goes on serving requests.
C8_MalformedRejected ==
    [][IsMalformed(request')
        => (res' = FALSE /\ response' = EmptyResponse /\ SessionUnchanged)]_vars

\* a Prepare without audio payload was refused while a job was live
C8_Witness ==
    /\ request.type = TypeMediaPrepare
    /\ request.has_prepare
    /\ ~request.has_audio
    /\ res = FALSE
    /\ response = EmptyResponse
    /\ Size(transcoders) >= 1

\* C9: when building the transcoder of a valid, admitted Prepare for a known
\* track throws, the Prepare fails, no job is inserted and the counter stays.
C9_BuildFailureFails ==
    [][(/\ IsValidPrepare(request')
        /\ Size(transcoders) < maxTranscoders
        /\ GetById(request'.track_id)
        /\ build'.thrown)
        => (res' = FALSE /\ ~response'.has_handle /\ SessionUnchanged)]_vars

\* a build threw after one handle had been issued
C9_Witness ==
    /\ IsValidPrepare(request)
    /\ build.thrown
    /\ log = LogException
    /\ res = FALSE
    /\ Len(issued) >= 1

\* C10: Terminate always succeeds; on a handle that is not in the table it
\* changes nothing; a second Terminate of the same handle changes nothing.
C10_TerminateIdempotent ==
    [][IsTerminate(request') =>
        /\ res' = TRUE
        /\ curHandle' = curHandle /\ issued' = issued
        /\ request'.handle \notin DOMAIN transcoders => transcoders' = transcoders
        /\ (IsTerminate(request) /\ request.handle = request'.handle) => transcoders' = transcoders]_vars

\* a handle that was issued is terminated again while another job is live
C10_Witness ==
    /\ IsTerminate(request)
    /\ log = LogNoTranscoder
    /\ \E i \in 1..Len(issued) : issued[i] = request.handle
    /\ Size(transcoders) >= 1
    /\ res

Range(q) == {q[i] : i \in 1..Len(q)}

\* C11: a GetPart on a handle that is not in the table succeeds with empty
\* data and changes neither the table, nor the counter, nor any pipeline.
C11_UnknownHandleGetPart ==
    [][(IsGetPart(request') /\ request'.handle \notin DOMAIN transcoders)
        => (res' = TRUE /\ response'.data = 0 /\ ~pull'.called /\ SessionUnchanged)]_vars

\* a GetPart named a terminated handle while another job was still streaming
C11_Witness ==
    /\ IsGetPart(request)
    /\ request.handle \in terminated
    /\ request.requested_data_size > 0
    /\ log = LogNoTranscoder
    /\ \E h \in DOMAIN transcoders : ~transcoders[h].complete
    /\ res
    /\ response.data = 0

\* C12: a job leaves the table only through a Terminate that names its handle.
C12_OnlyTerminateRemoves ==
    [][\A h \in DOMAIN transcoders :
        h \notin DOMAIN transcoders' => (IsTerminate(request') /\ request'.handle = h)]_vars

\* a Terminate removed its own job and left a complete one in the table
C12_Witness ==
    /\ IsTerminate(request)
    /\ log = LogTerminate
    /\ request.handle \in terminated
    /\ \E h \in DOMAIN transcoders : transcoders[h].complete

\* C13: a GetPart on a live job whose pipeline is complete succeeds with empty
\* data, does not pull, and leaves the job in the table (still counted).
C13_CompleteGetPart ==
    [][(/\ IsGetPart(request')
        /\ request'.handle \in DOMAIN transcoders
        /\ transcoders[request'.handle].complete)
        => (res' = TRUE /\ response'.data = 0 /\ ~pull'.called /\ SessionUnchanged)]_vars

\* a GetPart asked a complete job for bytes and the table is still full
C13_Witness ==
    /\ IsGetPart(request)
    /\ request.handle \in DOMAIN transcoders
    /\ transcoders[request.handle].complete
    /\ request.requested_data_size > 0
    /\ ~pull.called
    /\ response.data = 0
    /\ Size(transcoders) = maxTranscoders

\* C14: a terminated handle is never a key of the table again and no later
\* Prepare returns it.
C14_TerminatedRetired ==
    [][\A h \in terminated :
        /\ h \notin DOMAIN transcoders'
        /\ (IsAudioPrepare(request') /\ response'.has_handle) => response'.handle # h]_vars

\* a Prepare was admitted after a handle had been terminated
C14_Witness ==
    /\ terminated # {}
    /\ IsAudioPrepare(request)
    /\ response.has_handle
    /\ response.handle \notin terminated

\* C15: every key of the table was issued by the counter (it is below the
\* counter's value and was returned by a Prepare) and holds one job.
C15_KeysIssued ==
    \A h \in DOMAIN transcoders :
        /\ h < curHandle
        /\ h \in Range(issued)
        /\ Cardinality({i \in 1..Len(issued) : issued[i] = h}) = 1

\* the table is full and holds a key other than the first handle
C15_Witness ==
    /\ Size(transcoders) = maxTranscoders
    /\ maxTranscoders > 0
    /\ terminated # {}
    /\ curHandle > Size(transcoders)

\* what an absorbed Prepare answers
AbsorbedPrepareResponse ==
    [EmptyResponse EXCEPT !.type = TypePrepareResult, !.has_prepare_result = TRUE]

\* what an absorbed GetPart answers
AbsorbedPartResponse ==
    [EmptyResponse EXCEPT !.type = TypePartResult, !.has_part_result = TRUE]

\* C16: a Prepare rejected at the limit and a Prepare for an unknown track
\* return the same result (success, no handle); a GetPart on an unknown handle
\* and a GetPart on a complete job return the same result (success, no data).
C16_MissesIndistinguishable ==
    [][/\ (IsValidPrepare(request') /\ (Size(transcoders) = maxTranscoders \/ ~GetById(request'.track_id)))
            => (res' = TRUE /\ response' = AbsorbedPrepareResponse)
       /\ (IsGetPart(request') /\ (request'.handle \notin DOMAIN transcoders \/ transcoders[request'.handle].complete))
            => (res' = TRUE /\ response' = AbsorbedPartResponse)]_vars

\* a Prepare for a known track was absorbed at the limit with the answer an
\* unknown track gets
C16_Witness ==
    /\ IsValidPrepare(request)
    /\ GetById(request.track_id)
    /\ log = LogLimit
    /\ res
    /\ response = AbsorbedPrepareResponse

\* C17: a GetPart on a live job pulls exactly when isComplete() is false, and
\* after a pull the job is complete exactly when the pipeline said so, however
\* few bytes (zero included) the pull returned.
C17_CompletionDecides ==
    [][IsGetPart(request') =>
        /\ pull'.called <=> (request'.handle \in DOMAIN transcoders /\ ~transcoders[request'.handle].complete)
        /\ pull'.called => transcoders'[request'.handle].complete = pull'.eof]_vars

\* a pull returned no byte of those asked for and the job is not complete
C17_Witness ==
    /\ IsGetPart(request)
    /\ request.requested_data_size > 0
    /\ pull.called
    /\ ~pull.eof
    /\ response.data = 0
    /\ ~transcoders[request.handle].complete

\* a Prepare that nothing but the limit can stop
IsGoodPrepare(r, b) == IsValidPrepare(r) /\ GetById(r.track_id) /\ ~b.thrown

\* C18: the Terminate of a live handle takes one job off the table; a good
\* Prepare below the limit is admitted with a handle above every handle issued
\* before; at the limit it is rejected, and only a Terminate makes room.
C18_AdmissionReopens ==
    [][/\ (IsTerminate(request') /\ request'.handle \in DOMAIN transcoders)
            => Size(transcoders') = Size(transcoders) - 1
       /\ (IsGoodPrepare(request', build') /\ Size(transcoders) < maxTranscoders)
            => /\ res' = TRUE
               /\ response'.has_handle
               /\ response'.handle \in DOMAIN transcoders'
               /\ \A i \in 1..Len(issued) : issued[i] < response'.handle
       /\ (IsGoodPrepare(request', build') /\ Size(transcoders) = maxTranscoders)
            => (~response'.has_handle /\ transcoders' = transcoders)
       /\ Size(transcoders') < Size(transcoders) => IsTerminate(request')]_vars

\* a Prepare was admitted into the place a Terminate had freed in a full table
C18_Witness ==
    /\ IsValidPrepare(request)
    /\ response.has_handle
    /\ Size(transcoders) = maxTranscoders
    /\ Len(issued) > maxTranscoders
    /\ terminated # {}

\* C19: the counter advances by one on each Prepare that returns a handle and
\* stays otherwise; it equals the number of handles issued, and the table size
\* is the handles issued minus the live handles terminated.
C19_CounterCounts ==
    [][/\ curHandle' = curHandle + (IF IsAudioPrepare(request') /\ response'.has_handle THEN 1 ELSE 0)
       /\ curHandle' = Len(issued')
       /\ Size(transcoders') = Len(issued') - Cardinality(terminated')]_vars

\* a GetPart left the counter at two with one handle terminated
C19_Witness ==
    /\ IsGetPart(request)
    /\ curHandle >= 2
    /\ Cardinality(terminated) >= 1
    /\ Size(transcoders) >= 1

\* C20: simulate() refuses a population of fewer than 10 before doing any
\* work; otherwise each generation keeps the better half, each breeding round
\* either retries (one parent picked twice) or adds one child, and at the end
\* of each generation the population has its initial size (the assertion holds).
C20_PopulationSizeKept ==
    [][/\ (gaPc = "start" /\ Len(initialPopulation) < MinPopulation)
            => (gaPc' = "error" /\ scoredPopulation' = <<>> /\ children' = <<>> /\ currentGeneration' = 0)
       /\ (gaPc = "start" /\ Len(initialPopulation) >= MinPopulation) => gaPc' = "generation"
       /\ (gaPc = "generation" /\ gaPc' = "breed")
            => /\ Len(scoredPopulation') = Len(scoredPopulation) \div 2
               /\ \A i \in 1..Len(scoredPopulation') : scoredPopulation'[i] = scoredPopulation[i]
               /\ \A i \in 1..Len(scoredPopulation') :
                    \A j \in (Len(scoredPopulation') + 1)..Len(scoredPopulation) :
                        ScoreFunction(scoredPopulation[i].individual) >= ScoreFunction(scoredPopulation[j].individual)
       /\ (gaPc = "breed" /\ gaPc' = "breed")
            => /\ scoredPopulation' = scoredPopulation
               /\ IF gaRetried' THEN children' = children ELSE Len(children') = Len(children) + 1
               /\ Len(children') + Len(scoredPopulation') <= Len(initialPopulation)
       /\ (gaPc = "breed" /\ gaPc' = "generation")
            => (Len(scoredPopulation') = Len(initialPopulation) /\ gaAssertOk')]_vars

\* a run over an odd-sized population finished its generations, one of them
\* after a retry-free refill
C20_Witness ==
    /\ gaPc = "done"
    /\ nbGenerations >= 1
    /\ currentGeneration = nbGenerations
    /\ Len(initialPopulation) > MinPopulation
    /\ Len(scoredPopulation) = Len(initialPopulation)
    /\ gaAssertOk

====
